---------------------------- MODULE Spec2Model ----------------------------
(* A model of the AudioSubtitleEditor component: the cue list, the playback *)
(* state, the selection, the transcription run and the segmentation of a    *)
(* transcript into timed cues.                                              *)
(*                                                                          *)
(* Times are exact rationals in fixed point: one second is Sec ticks, and   *)
(* Sec is chosen so that duration / N is a whole number of ticks for every  *)
(* cue count N the bounds allow (N <= 6).  A string is a sequence of        *)
(* one-character strings.                                                   *)
EXTENDS Integers, Sequences, FiniteSets, TLC

VARIABLES
    user,                  \* TRUE once the auth provider has reported a user
    audioFile,             \* "null" or "audio"
    mediaDuration,         \* the duration the audio element reports (0: no media)
    isPlaying,
    currentTime,
    duration,
    subtitles,             \* sequence of [id, startTime, endTime, text]
    isTranscribing,
    transcriptionProgress,
    selectedSubtitle,
    currentSubtitleId,
    pc,                    \* position of the transcribeAudio run
    runDuration,           \* `duration` as captured by the running transcribeAudio
    progressIntervals,     \* number of progress intervals set and not cleared
    editsLeft,             \* cue edits the model still explores
    srtContent,            \* content of the last exported file (<<>>: none)
    timeText,              \* a time as text: typed into a field, or formatted
    timeValue              \* a time as a number: to be formatted, or parsed

vars == <<user, audioFile, mediaDuration, isPlaying, currentTime, duration,
          subtitles, isTranscribing, transcriptionProgress, selectedSubtitle,
          currentSubtitleId, pc, runDuration, progressIntervals, editsLeft,
          srtContent, timeText, timeValue>>

----------------------------------------------------------------------------
(* Bounds of the model *)

MaxDurationSec == 3
MaxHalfSeconds == 16
MaxWords == 12
LongWordLen == 9
MaxTextLen == 4
MaxIntervals == 2
MaxEdits == 1
MaxPanelEdits == 3

----------------------------------------------------------------------------
(* Time in ticks *)

TicksPerMs == 2 * 3
Ms(n) == n * TicksPerMs
Sec == Ms(1000)

Min(a, b) == IF a <= b THEN a ELSE b
Max(a, b) == IF a >= b THEN a ELSE b

(* Program constants *)
wordsPerSegment == 4
baseSegmentDuration == Ms(2500)
nudgeStep == Ms(500)
nudgeGap == Ms(100)
skipStep == 10 * Sec
progressStep == 10
progressCap == 90
sliderDefaultMax == 100 * Sec

null == <<>>
SubtitleId(segmentIndex) == <<"subtitle-", segmentIndex>>

----------------------------------------------------------------------------
(* Strings *)

Whitespace == {" ", "\t", "\n"}
Digits == {"0", "1", "2", "3", "4", "5", "6", "7", "8", "9"}
DigitVal(c) ==
    CASE c = "0" -> 0 [] c = "1" -> 1 [] c = "2" -> 2 [] c = "3" -> 3
      [] c = "4" -> 4 [] c = "5" -> 5 [] c = "6" -> 6 [] c = "7" -> 7
      [] c = "8" -> 8 [] c = "9" -> 9

Drop(s, n) == SubSeq(s, n + 1, Len(s))

RECURSIVE Split(_, _)
Split(s, sep) ==
    IF \A i \in 1..Len(s) : s[i] # sep
    THEN <<s>>
    ELSE LET i == CHOOSE j \in 1..Len(s) :
                      s[j] = sep /\ \A k \in 1..(j - 1) : s[k] # sep
         IN  <<SubSeq(s, 1, i - 1)>> \o Split(Drop(s, i), sep)

RECURSIVE TrimStart(_)
TrimStart(s) ==
    IF Len(s) > 0 /\ s[1] \in Whitespace THEN TrimStart(Drop(s, 1)) ELSE s

RECURSIVE TrimEnd(_)
TrimEnd(s) ==
    IF Len(s) > 0 /\ s[Len(s)] \in Whitespace
    THEN TrimEnd(SubSeq(s, 1, Len(s) - 1)) ELSE s

Trim(s) == TrimEnd(TrimStart(s))

RECURSIVE Join(_, _)
Join(ws, sep) ==
    IF Len(ws) = 0 THEN <<>>
    ELSE IF Len(ws) = 1 THEN ws[1]
    ELSE ws[1] \o <<sep>> \o Join(Tail(ws), sep)

(* words.filter(word => word.trim().length > 0) *)
RECURSIVE FilterNonBlank(_)
FilterNonBlank(ws) ==
    IF Len(ws) = 0 THEN <<>>
    ELSE (IF Len(Trim(ws[1])) > 0 THEN <<ws[1]>> ELSE <<>>)
         \o FilterNonBlank(Tail(ws))

RECURSIVE SumLen(_)
SumLen(ws) == IF Len(ws) = 0 THEN 0 ELSE Len(ws[1]) + SumLen(Tail(ws))


(* String.prototype.padEnd(n, c) and slice(0, n) *)
RECURSIVE PadEnd(_, _, _)
PadEnd(s, n, c) == IF Len(s) >= n THEN s ELSE PadEnd(s \o <<c>>, n, c)

Slice0(s, n) == SubSeq(s, 1, Min(n, Len(s)))

(* The value of the longest prefix of s made of digits, read in base 10 *)
RECURSIVE DigitsValue(_, _)
DigitsValue(s, acc) ==
    IF Len(s) = 0 \/ s[1] \notin Digits THEN acc
    ELSE DigitsValue(Drop(s, 1), 10 * acc + DigitVal(s[1]))

(* parseInt(s) || 0: leading whitespace skipped, an optional sign, then the *)
(* leading digits; NaN (no digit) and 0 both give 0.                         *)
ParseIntOr0(s) ==
    LET t == TrimStart(s)
        signed == Len(t) > 0 /\ t[1] \in {"-", "+"}
        body == IF signed THEN Drop(t, 1) ELSE t
        magnitude == DigitsValue(body, 0)
    IN  IF Len(body) = 0 \/ body[1] \notin Digits THEN 0
        ELSE IF signed /\ t[1] = "-" THEN 0 - magnitude ELSE magnitude

parseTime(timeString) ==
    LET parts == Split(timeString, ":")
    IN  IF Len(parts) # 2 THEN 0
        ELSE LET minutes == ParseIntOr0(parts[1])
                 secondsParts == Split(parts[2], ".")
                 seconds == ParseIntOr0(secondsParts[1])
                 milliseconds ==
                     IF Len(secondsParts) < 2 THEN 0
                     ELSE ParseIntOr0(Slice0(PadEnd(secondsParts[2], 3, "0"), 3))
             IN  minutes * 60 * Sec + seconds * Sec + Ms(milliseconds)

(* Number.prototype.toString() of an integer, and padStart(n, c) *)
DigitChar(d) == CHOOSE c \in Digits : DigitVal(c) = d

RECURSIVE NaturalToString(_)
NaturalToString(n) ==
    IF n < 10 THEN <<DigitChar(n)>>
    ELSE NaturalToString(n \div 10) \o <<DigitChar(n % 10)>>

NumberToString(n) ==
    IF n < 0 THEN <<"-">> \o NaturalToString(0 - n) ELSE NaturalToString(n)

RECURSIVE PadStart(_, _, _)
PadStart(s, n, c) == IF Len(s) >= n THEN s ELSE PadStart(<<c>> \o s, n, c)

Abs(x) == IF x < 0 THEN 0 - x ELSE x

(* Math.floor(x / d) and the remainder x % d of JavaScript (sign of x), d > 0 *)
FloorDiv(x, d) == IF x >= 0 THEN x \div d ELSE 0 - ((d - 1 - x) \div d)
Remainder(x, d) == IF x >= 0 THEN x % d ELSE 0 - ((0 - x) % d)

RECURSIVE Pow2(_)
Pow2(n) == IF n = 0 THEN 1 ELSE 2 * Pow2(n - 1)

RECURSIVE Pow2Mod1000(_)
Pow2Mod1000(n) == IF n = 0 THEN 1 ELSE (2 * Pow2Mod1000(n - 1)) % 1000

RECURSIVE Log2Floor(_)
Log2Floor(n) == IF n < 2 THEN 0 ELSE 1 + Log2Floor(n \div 2)

(* The binary exponent of the double that holds K / 1000, K >= 1:           *)
(* the q with 2^q <= K / 1000 < 2^(q + 1)                                   *)
RECURSIVE ExponentUp(_, _)
ExponentUp(K, q) ==
    IF Pow2(q + 1) * 1000 <= K THEN ExponentUp(K, q + 1) ELSE q

RECURSIVE ExponentDown(_, _)
ExponentDown(K, j) ==
    IF K * Pow2(j) >= 1000 THEN 0 - j ELSE ExponentDown(K, j + 1)

BinaryExponent(K) ==
    IF K >= 1000 THEN ExponentUp(K, 0) ELSE ExponentDown(K, 1)

DoubleMantissaBits == 52

(* Math.floor((seconds % 1) * 1000) in IEEE-754 double arithmetic.          *)
(* A time that is not a whole number of milliseconds is far from the next   *)
(* millisecond and floors as in exact arithmetic. A time of K ms is held as *)
(* the double nearest to K / 1000: with e = 52 - q that double is           *)
(* K / 1000 - r / (1000 * 2^e) when r = K * 2^e mod 1000 is below 500 and   *)
(* K / 1000 + (1000 - r) / (1000 * 2^e) when it is above. The remainder     *)
(* seconds % 1 is exact, the product by 1000 is rounded to the nearest      *)
(* double, which is the whole number k = K mod 1000 when the distance to k  *)
(* is at most half a unit in the last place of the doubles on that side of  *)
(* k, and the floor of a magnitude just below k is k - 1.                   *)
FractionMs(seconds) ==
    LET a == Abs(seconds)
        K == a \div TicksPerMs
        k == K % 1000
        whole == a % TicksPerMs = 0
        q == BinaryExponent(K)
        r == (k * Pow2Mod1000(DoubleMantissaBits - q)) % 1000
        p == IF seconds > 0 /\ Pow2(Log2Floor(k)) = k
             THEN Log2Floor(k) - 1 ELSE Log2Floor(k)
        distance == IF seconds > 0 THEN r ELSE 1000 - r
        roundsToWhole == p - 1 - q >= 0 /\ distance <= Pow2(p - 1 - q)
    IN  IF seconds >= 0
        THEN IF ~whole \/ k = 0 THEN k
             ELSE IF r = 0 \/ r > 500 \/ roundsToWhole THEN k ELSE k - 1
        ELSE IF ~whole THEN 0 - (k + 1)
             ELSE IF k = 0 THEN 0
             ELSE IF r = 0 \/ r < 500 \/ roundsToWhole THEN 0 - k
             ELSE 0 - (k + 1)

formatTime(seconds) ==
    LET mins == FloorDiv(seconds, 60 * Sec)
        secs == FloorDiv(Remainder(seconds, 60 * Sec), Sec)
        ms == FractionMs(seconds)
    IN  PadStart(NumberToString(mins), 2, "0") \o <<":">>
        \o PadStart(NumberToString(secs), 2, "0") \o <<".">>
        \o PadStart(NumberToString(ms), 3, "0")

----------------------------------------------------------------------------
(* Segmentation of a transcript (transcribeAudio, after the provider call)  *)

Words(text) == FilterNonBlank(Split(text, " "))

(* Math.max(0.8, Math.min(1.5, avgWordLength / 5)) * baseSegmentDuration,   *)
(* with avgWordLength = sumLen / wordCount: 2.5 s * sumLen / (5 * wordCount) *)
WeightedDuration(segmentWords) ==
    Max(Ms(2000), Min(Ms(3750),
        (Ms(500) * SumLen(segmentWords)) \div Len(segmentWords)))

(* The for-loop: one provisional cue per window of wordsPerSegment words,   *)
(* stopping at the first window whose start is not before totalDuration.    *)
RECURSIVE Windows(_, _, _)
Windows(words, i, totalDuration) ==
    IF i >= Len(words) THEN <<>>
    ELSE LET segmentWords ==
                 SubSeq(words, i + 1, Min(i + wordsPerSegment, Len(words)))
             segmentIndex == i \div wordsPerSegment
             startTime == segmentIndex * baseSegmentDuration
             segmentDuration == Min(WeightedDuration(segmentWords),
                                    totalDuration - startTime)
             endTime == Min(startTime + segmentDuration, totalDuration)
         IN  IF startTime >= totalDuration THEN <<>>
             ELSE <<[id |-> SubtitleId(segmentIndex),
                     startTime |-> startTime,
                     endTime |-> endTime,
                     text |-> Join(segmentWords, " ")]>>
                  \o Windows(words, i + wordsPerSegment, totalDuration)

(* Mutant of Redistribute: the cue's position is counted from one *)
RedistributeFromOne(newSubtitles, totalDuration) ==
    IF Len(newSubtitles) = 0 THEN newSubtitles
    ELSE LET totalSubtitles == Len(newSubtitles)
             timePerSubtitle == totalDuration \div totalSubtitles
         IN  [k \in 1..totalSubtitles |->
                 [newSubtitles[k] EXCEPT
                     !.startTime = k * timePerSubtitle,
                     !.endTime = Min((k + 1) * timePerSubtitle, totalDuration)]]

(* Mutant of Redistribute: every cue gets the base segment duration *)
RedistributeByBase(newSubtitles, totalDuration) ==
    IF Len(newSubtitles) = 0 THEN newSubtitles
    ELSE [k \in 1..Len(newSubtitles) |->
             [newSubtitles[k] EXCEPT
                 !.startTime = (k - 1) * baseSegmentDuration,
                 !.endTime = Min(k * baseSegmentDuration, totalDuration)]]

(* The redistribution pass over the produced cues *)
Redistribute(newSubtitles, totalDuration) ==
    IF Len(newSubtitles) = 0 THEN newSubtitles
    ELSE LET totalSubtitles == Len(newSubtitles)
             timePerSubtitle == totalDuration \div totalSubtitles
         IN  [k \in 1..totalSubtitles |->
                 [newSubtitles[k] EXCEPT
                     !.startTime = (k - 1) * timePerSubtitle,
                     !.endTime = Min(k * timePerSubtitle, totalDuration)]]

Segment(text, totalDuration) ==
    Redistribute(Windows(Words(text), 0, totalDuration), totalDuration)


----------------------------------------------------------------------------
(* Inputs *)

Letters == <<"a", "b", "c", "d", "e", "f", "g", "h", "i", "j", "k", "l">>
Letter(k) == Letters[((k - 1) % Len(Letters)) + 1]

(* n distinct words of wordLen characters each, joined by single spaces *)
SampleText(n, wordLen) ==
    Join([k \in 1..n |-> [j \in 1..wordLen |-> Letter(k)]], " ")

(* What the provider may return in the editor's specification *)
Transcripts == {SampleText(n, 1) : n \in {0, MaxWords}}

(* What the provider may return in the segmentation's specification: up to *)
(* MaxWords short or long words, and every short string with whitespace     *)
SegTranscripts ==
    {SampleText(n, len) : n \in 0..MaxWords, len \in {1, LongWordLen}}
    \cup UNION {[1..n -> {"a", " ", "\t"}] : n \in 0..MaxTextLen}

(* The durations a transcript is segmented for there: every half second *)
SegDurations == {k * Ms(500) : k \in 1..MaxHalfSeconds}

(* The durations an uploaded audio file may have: a short file (one cue)   *)
(* and the longest one                                                     *)
Durations == {Sec, MaxDurationSec * Sec}

(* Playback and slider positions: the start, the middle and the end *)
Positions == {0, mediaDuration \div 2, mediaDuration}

(* What the user may type into a time field *)
TypedTimes ==
    { <<"0", "0", ":", "0", "0", ".", "0", "5", "0">>,
      <<"0", "0", ":", "0", "2", ".", "9", "5", "0">>,
      <<"s", "o", "o", "n">> }

(* What the user may type into the text area *)
TypedTexts == { <<"o", "k">> }

----------------------------------------------------------------------------
(* Lookups *)

(* subtitles.find(pred): the index of the first match, 0 if there is none; *)
(* matching is the set of the indices at which pred holds                  *)
FindIndex(matching) ==
    IF matching = {} THEN 0
    ELSE CHOOSE i \in matching : \A j \in matching : i <= j

(* Mutant of ActiveCueId: the end bound is exclusive *)
ActiveCueIdExclusiveEnd(subs, time) ==
    LET i == FindIndex({k \in 1..Len(subs) :
                           time >= subs[k].startTime /\ time < subs[k].endTime})
    IN  IF i = 0 THEN null ELSE subs[i].id

(* updateTime's lookup: currentSub?.id || null *)
ActiveCueId(subs, time) ==
    LET i == FindIndex({k \in 1..Len(subs) :
                           time >= subs[k].startTime /\ time <= subs[k].endTime})
    IN  IF i = 0 THEN null ELSE subs[i].id

(* The Edit Subtitle panel's lookup: the index of the selected cue, or 0 *)
SelectedIndex ==
    IF selectedSubtitle = null THEN 0
    ELSE FindIndex({k \in 1..Len(subtitles) :
                       subtitles[k].id = selectedSubtitle})

updateSubtitleTiming(subs, id, startTime, endTime) ==
    [k \in 1..Len(subs) |->
        IF subs[k].id = id
        THEN [subs[k] EXCEPT !.startTime = startTime, !.endTime = endTime]
        ELSE subs[k]]

updateSubtitleText(subs, id, newText) ==
    [k \in 1..Len(subs) |->
        IF subs[k].id = id THEN [subs[k] EXCEPT !.text = newText] ELSE subs[k]]

----------------------------------------------------------------------------
(* Initial state: the component as mounted *)

Init ==
    /\ user = FALSE
    /\ audioFile = "null"
    /\ mediaDuration = 0
    /\ isPlaying = FALSE
    /\ currentTime = 0
    /\ duration = 0
    /\ subtitles = <<>>
    /\ isTranscribing = FALSE
    /\ transcriptionProgress = 0
    /\ selectedSubtitle = null
    /\ currentSubtitleId = null
    /\ pc = "idle"
    /\ runDuration = 0
    /\ progressIntervals = 0
    /\ editsLeft = MaxEdits
    /\ srtContent = <<>>
    /\ timeText = <<>>
    /\ timeValue = 0

(* The editor is rendered (a user is signed in) *)
EditorShown == user
(* The player card, with the audio element, is rendered *)
PlayerShown == user /\ audioFile = "audio"
(* The timeline and the edit panel are rendered *)
TimelineShown == PlayerShown /\ Len(subtitles) > 0

runVars == <<pc, runDuration, progressIntervals>>
timeVars == <<timeText, timeValue>>
playVars == <<isPlaying, currentTime, currentSubtitleId>>

----------------------------------------------------------------------------
(* Authentication and upload *)

AuthStateChanged ==
    /\ ~user
    /\ user' = TRUE
    /\ UNCHANGED <<audioFile, mediaDuration, isPlaying, currentTime, duration,
                   subtitles, isTranscribing, transcriptionProgress,
                   selectedSubtitle, currentSubtitleId, runVars, editsLeft,
                   srtContent, timeVars>>

(* The drop zone and the file input exist only while no file is loaded *)
handleFileUpload ==
    /\ EditorShown /\ audioFile = "null"
    /\ \E isAudio \in BOOLEAN :
         IF isAudio
         THEN /\ audioFile' = "audio"
              /\ \E d \in Durations : mediaDuration' = d
              /\ subtitles' = <<>>
              /\ selectedSubtitle' = null
              /\ UNCHANGED <<user, isPlaying, currentTime, duration,
                             isTranscribing, transcriptionProgress,
                             currentSubtitleId, runVars, editsLeft,
                   srtContent, timeVars>>
         ELSE UNCHANGED vars

handleDrop ==
    /\ EditorShown /\ audioFile = "null"
    /\ \E isAudio \in BOOLEAN :
         IF isAudio
         THEN /\ audioFile' = "audio"
              /\ \E d \in Durations : mediaDuration' = d
              /\ subtitles' = <<>>
              /\ selectedSubtitle' = null
              /\ UNCHANGED <<user, isPlaying, currentTime, duration,
                             isTranscribing, transcriptionProgress,
                             currentSubtitleId, runVars, editsLeft,
                   srtContent, timeVars>>
         ELSE UNCHANGED vars

----------------------------------------------------------------------------
(* Audio element events *)

updateDuration ==
    /\ PlayerShown
    /\ duration # mediaDuration
    /\ duration' = mediaDuration
    /\ UNCHANGED <<user, audioFile, mediaDuration, playVars, subtitles,
                   isTranscribing, transcriptionProgress, selectedSubtitle,
                   runVars, editsLeft,
                   srtContent, timeVars>>

updateTime ==
    /\ PlayerShown
    /\ \E time \in Positions :
         /\ time <= duration
         /\ currentTime' = time
         /\ currentSubtitleId' = ActiveCueId(subtitles, time)
    /\ UNCHANGED <<user, audioFile, mediaDuration, isPlaying, duration,
                   subtitles, isTranscribing, transcriptionProgress,
                   selectedSubtitle, runVars, editsLeft,
                   srtContent, timeVars>>

handleEnded ==
    /\ PlayerShown
    /\ isPlaying
    /\ duration = mediaDuration
    /\ isPlaying' = FALSE
    /\ currentSubtitleId' = null
    /\ UNCHANGED <<user, audioFile, mediaDuration, currentTime, duration,
                   subtitles, isTranscribing, transcriptionProgress,
                   selectedSubtitle, runVars, editsLeft,
                   srtContent, timeVars>>

----------------------------------------------------------------------------
(* Playback controls *)

togglePlayPause ==
    /\ PlayerShown
    /\ isPlaying' = ~isPlaying
    /\ UNCHANGED <<user, audioFile, mediaDuration, currentTime, duration,
                   subtitles, isTranscribing, transcriptionProgress,
                   selectedSubtitle, currentSubtitleId, runVars, editsLeft,
                   srtContent, timeVars>>

(* seekTo(time): the state the handler leaves, all but currentTime unchanged *)
seekTo(time) ==
    /\ currentTime' = time
    /\ UNCHANGED <<user, audioFile, mediaDuration, isPlaying, duration,
                   subtitles, isTranscribing, transcriptionProgress,
                   currentSubtitleId, runVars, editsLeft,
                   srtContent, timeVars>>

SliderSeek ==
    /\ PlayerShown
    /\ \E value \in Positions :
         /\ value <= (IF duration = 0 THEN sliderDefaultMax ELSE duration)
         /\ seekTo(value)
    /\ UNCHANGED selectedSubtitle

skipBackward ==
    /\ PlayerShown
    /\ seekTo(Max(0, currentTime - skipStep))
    /\ UNCHANGED selectedSubtitle

skipForward ==
    /\ PlayerShown
    /\ seekTo(Min(duration, currentTime + skipStep))
    /\ UNCHANGED selectedSubtitle

(* Click on a timeline item: select it and seek to its start *)
TimelineClick ==
    /\ TimelineShown
    /\ \E i \in 1..Len(subtitles) :
         /\ selectedSubtitle' = subtitles[i].id
         /\ seekTo(subtitles[i].startTime)

(* The play button of a timeline item, and Play from Start in the panel *)
PlayFromStart ==
    /\ TimelineShown
    /\ \E i \in 1..Len(subtitles) : seekTo(subtitles[i].startTime)
    /\ UNCHANGED selectedSubtitle


----------------------------------------------------------------------------
(* The Edit Subtitle panel: every handler acts on the selected cue *)

PanelShown == TimelineShown /\ SelectedIndex # 0 /\ editsLeft > 0

(* setSubtitles(...) by an edit handler, everything else unchanged *)
CommitEdit(newSubtitles) ==
    /\ subtitles' = newSubtitles
    /\ editsLeft' = editsLeft - 1
    /\ UNCHANGED <<user, audioFile, mediaDuration, playVars, duration,
                   isTranscribing, transcriptionProgress, selectedSubtitle,
                   runVars,
                   srtContent, timeVars>>

StartTimeChange ==
    /\ PanelShown
    /\ \E typed \in TypedTimes :
         LET subtitle == subtitles[SelectedIndex]
             newStartTime == parseTime(typed)
         IN  IF newStartTime >= 0 /\ newStartTime < subtitle.endTime
             THEN CommitEdit(updateSubtitleTiming(subtitles, subtitle.id,
                                                  newStartTime, subtitle.endTime))
             ELSE UNCHANGED vars

EndTimeChange ==
    /\ PanelShown
    /\ \E typed \in TypedTimes :
         LET subtitle == subtitles[SelectedIndex]
             newEndTime == parseTime(typed)
         IN  IF newEndTime > subtitle.startTime /\ newEndTime <= duration
             THEN CommitEdit(updateSubtitleTiming(subtitles, subtitle.id,
                                                  subtitle.startTime, newEndTime))
             ELSE UNCHANGED vars

StartMinusNudge(subtitle) == Max(0, subtitle.startTime - nudgeStep)
StartPlusNudge(subtitle) ==
    Min(subtitle.endTime - nudgeGap, subtitle.startTime + nudgeStep)
(* Mutant of EndMinusNudge: no clamp against the cue's start *)
EndMinusNudgeUnclamped(subtitle) == subtitle.endTime - nudgeStep

EndMinusNudge(subtitle) ==
    Max(subtitle.startTime + nudgeGap, subtitle.endTime - nudgeStep)
EndPlusNudge(subtitle, totalDuration) ==
    Min(totalDuration, subtitle.endTime + nudgeStep)

StartMinus ==
    /\ PanelShown
    /\ LET subtitle == subtitles[SelectedIndex]
       IN  CommitEdit(updateSubtitleTiming(subtitles, subtitle.id,
                          StartMinusNudge(subtitle), subtitle.endTime))

StartPlus ==
    /\ PanelShown
    /\ LET subtitle == subtitles[SelectedIndex]
       IN  CommitEdit(updateSubtitleTiming(subtitles, subtitle.id,
                          StartPlusNudge(subtitle), subtitle.endTime))

EndMinus ==
    /\ PanelShown
    /\ LET subtitle == subtitles[SelectedIndex]
       IN  CommitEdit(updateSubtitleTiming(subtitles, subtitle.id,
                          subtitle.startTime, EndMinusNudge(subtitle)))

EndPlus ==
    /\ PanelShown
    /\ LET subtitle == subtitles[SelectedIndex]
       IN  CommitEdit(updateSubtitleTiming(subtitles, subtitle.id,
                          subtitle.startTime, EndPlusNudge(subtitle, duration)))

TextChange ==
    /\ PanelShown
    /\ \E newText \in TypedTexts :
         CommitEdit(updateSubtitleText(subtitles, subtitles[SelectedIndex].id,
                                       newText))

----------------------------------------------------------------------------
(* exportSRT *)

Arrow == <<" ", "-", "-", ">", " ">>

(* The mutation of the export that numbers the blocks from 0 *)
RECURSIVE SrtBlocksFromZero(_, _)
SrtBlocksFromZero(subs, index) ==
    IF index > Len(subs) THEN <<>>
    ELSE NumberToString(index - 1) \o <<"\n">>
         \o formatTime(subs[index].startTime) \o Arrow
         \o formatTime(subs[index].endTime) \o <<"\n">>
         \o subs[index].text \o <<"\n", "\n">>
         \o SrtBlocksFromZero(subs, index + 1)

(* subtitles.forEach((subtitle, index) => srtContent += ...), from the cue  *)
(* at position index (counted from 1 here, so that `${index + 1}` is index) *)
RECURSIVE SrtBlocks(_, _)
SrtBlocks(subs, index) ==
    IF index > Len(subs) THEN <<>>
    ELSE NumberToString(index) \o <<"\n">>
         \o formatTime(subs[index].startTime) \o Arrow
         \o formatTime(subs[index].endTime) \o <<"\n">>
         \o subs[index].text \o <<"\n", "\n">>
         \o SrtBlocks(subs, index + 1)

(* The Export SRT button is rendered in the player card once there are cues *)
ExportShown == PlayerShown /\ Len(subtitles) > 0

exportSRT ==
    /\ ExportShown
    /\ IF Len(subtitles) = 0 THEN UNCHANGED vars
       ELSE /\ srtContent' = SrtBlocks(subtitles, 1)
            /\ UNCHANGED <<user, audioFile, mediaDuration, playVars, duration,
                           subtitles, isTranscribing, transcriptionProgress,
                           selectedSubtitle, runVars, editsLeft, timeVars>>

----------------------------------------------------------------------------
(* transcribeAudio *)

(* The click: the run starts and reads the file *)
transcribeAudio ==
    /\ PlayerShown
    /\ ~isTranscribing
    /\ progressIntervals < MaxIntervals
    /\ isTranscribing' = TRUE
    /\ transcriptionProgress' = 0
    /\ pc' = "reading"
    /\ runDuration' = duration
    /\ UNCHANGED <<user, audioFile, mediaDuration, playVars, duration,
                   subtitles, selectedSubtitle, progressIntervals, editsLeft,
                   srtContent, timeVars>>

(* Mutant of RunFailed: the failure also resets the cue list and selection *)
RunFailedClearing ==
    /\ isTranscribing' = FALSE
    /\ transcriptionProgress' = 0
    /\ pc' = "idle"
    /\ subtitles' = <<>>
    /\ selectedSubtitle' = null
    /\ UNCHANGED <<user, audioFile, mediaDuration, playVars, duration,
                   runDuration, editsLeft,
                   srtContent, timeVars>>

(* catch and finally *)
RunFailed ==
    /\ isTranscribing' = FALSE
    /\ transcriptionProgress' = 0
    /\ pc' = "idle"
    /\ UNCHANGED <<user, audioFile, mediaDuration, playVars, duration,
                   subtitles, selectedSubtitle, runDuration, editsLeft,
                   srtContent, timeVars>>

(* reader.onerror *)
ReadFails ==
    /\ pc = "reading"
    /\ RunFailed
    /\ UNCHANGED progressIntervals

(* reader.onload: the progress interval is set and the provider is called *)
ReadDone ==
    /\ pc = "reading"
    /\ pc' = "calling"
    /\ progressIntervals' = progressIntervals + 1
    /\ UNCHANGED <<user, audioFile, mediaDuration, playVars, duration,
                   subtitles, isTranscribing, transcriptionProgress,
                   selectedSubtitle, runDuration, editsLeft,
                   srtContent, timeVars>>

(* One firing of a progress interval *)
ProgressTick ==
    /\ progressIntervals > 0
    /\ transcriptionProgress' =
           Min(transcriptionProgress + progressStep, progressCap)
    /\ UNCHANGED <<user, audioFile, mediaDuration, playVars, duration,
                   subtitles, isTranscribing, selectedSubtitle, runVars, editsLeft,
                   srtContent, timeVars>>

(* The provider call rejects: the interval is not cleared *)
ProviderRejects ==
    /\ pc = "calling"
    /\ RunFailed
    /\ UNCHANGED progressIntervals

(* The provider call resolves with text: segmentation, then finally *)
ProviderResolves(text) ==
    /\ pc = "calling"
    /\ progressIntervals' = progressIntervals - 1
    /\ subtitles' = Segment(text, runDuration)
    /\ isTranscribing' = FALSE
    /\ transcriptionProgress' = 0
    /\ pc' = "idle"
    /\ UNCHANGED <<user, audioFile, mediaDuration, playVars, duration,
                   selectedSubtitle, runDuration, editsLeft,
                   srtContent, timeVars>>

TranscriptionDone == \E text \in Transcripts : ProviderResolves(text)

----------------------------------------------------------------------------

Next ==
    \/ AuthStateChanged
    \/ handleFileUpload
    \/ handleDrop
    \/ updateDuration
    \/ updateTime
    \/ handleEnded
    \/ togglePlayPause
    \/ SliderSeek
    \/ skipBackward
    \/ skipForward
    \/ TimelineClick
    \/ PlayFromStart
    \/ StartTimeChange
    \/ EndTimeChange
    \/ StartMinus
    \/ StartPlus
    \/ EndMinus
    \/ EndPlus
    \/ TextChange
    \/ transcribeAudio
    \/ ReadFails
    \/ ReadDone
    \/ ProgressTick
    \/ ProviderRejects
    \/ TranscriptionDone

Spec == Init /\ [][Next]_vars

----------------------------------------------------------------------------
(* The editor with a segmented cue list and no transcription run in flight: *)
(* the state a successful run leaves, then playback, selection and edits.   *)

InitEdit ==
    /\ user = TRUE
    /\ audioFile = "audio"
    /\ \E d \in Durations, text \in Transcripts :
         /\ mediaDuration = d
         /\ duration = d
         /\ runDuration = d
         /\ subtitles = Segment(text, d)
         /\ Len(subtitles) > 0
    /\ isPlaying = FALSE
    /\ currentTime = 0
    /\ isTranscribing = FALSE
    /\ transcriptionProgress = 0
    /\ selectedSubtitle = null
    /\ currentSubtitleId = null
    /\ pc = "idle"
    /\ progressIntervals = 0
    /\ editsLeft = MaxPanelEdits
    /\ srtContent = <<>>
    /\ timeText = <<>>
    /\ timeValue = 0

NextEdit ==
    \/ updateTime
    \/ handleEnded
    \/ togglePlayPause
    \/ SliderSeek
    \/ skipBackward
    \/ skipForward
    \/ TimelineClick
    \/ PlayFromStart
    \/ StartTimeChange
    \/ EndTimeChange
    \/ StartMinus
    \/ StartPlus
    \/ EndMinus
    \/ EndPlus
    \/ TextChange

EditSpec == InitEdit /\ [][NextEdit]_vars

----------------------------------------------------------------------------
(* The editor as a signed-in user finds it after a run, with or without    *)
(* cues: playback, selection, edits and the export of the cue list. The    *)
(* export writes srtContent only, which no handler reads, so the other     *)
(* specifications leave it out.                                            *)

MaxExportEdits == 1

EightWords ==
    <<"o", "n", "e", " ",
       "t", "w", "o", " ",
       "t", "h", "r", "e", "e", " ",
       "f", "o", "u", "r", " ",
       "f", "i", "v", "e", " ",
       "s", "i", "x", " ",
       "s", "e", "v", "e", "n", " ",
       "e", "i", "g", "h", "t" >>

(* Transcript and duration of the run that made the cue list *)
ExportRuns ==
    { <<(<<>>), MaxDurationSec * Sec>>,
      <<SampleText(MaxWords, 1), MaxDurationSec * Sec>>,
      <<EightWords, 10 * Sec>> }

InitExport ==
    /\ user = TRUE
    /\ audioFile = "audio"
    /\ \E run \in ExportRuns :
         /\ mediaDuration = run[2]
         /\ duration = run[2]
         /\ runDuration = run[2]
         /\ subtitles = Segment(run[1], run[2])
    /\ isPlaying = FALSE
    /\ currentTime = 0
    /\ isTranscribing = FALSE
    /\ transcriptionProgress = 0
    /\ selectedSubtitle = null
    /\ currentSubtitleId = null
    /\ pc = "idle"
    /\ progressIntervals = 0
    /\ editsLeft = MaxExportEdits
    /\ srtContent = <<>>
    /\ timeText = <<>>
    /\ timeValue = 0

NextExport == NextEdit \/ exportSRT

ExportSpec == InitExport /\ [][NextExport]_vars

----------------------------------------------------------------------------
(* The segmentation alone: a run whose provider call is in flight, started  *)
(* before or after the metadata arrived, and the transcript it receives.    *)

InitSeg ==
    /\ user = TRUE
    /\ audioFile = "audio"
    /\ mediaDuration \in SegDurations
    /\ runDuration \in {0, mediaDuration}
    /\ duration = mediaDuration
    /\ isPlaying = FALSE
    /\ currentTime = 0
    /\ subtitles = <<>>
    /\ isTranscribing = TRUE
    /\ transcriptionProgress = 0
    /\ selectedSubtitle = null
    /\ currentSubtitleId = null
    /\ pc = "calling"
    /\ progressIntervals = 1
    /\ editsLeft = 0
    /\ srtContent = <<>>
    /\ timeText = <<>>
    /\ timeValue = 0

NextSeg == \E text \in SegTranscripts : ProviderResolves(text)

SegSpec == InitSeg /\ [][NextSeg]_vars

----------------------------------------------------------------------------
(* The two time conversions alone: a text that is parsed as the Start Time  *)
(* and End Time fields parse what is typed, and a time that is formatted as *)
(* the fields, the time display and the export format a cue's bounds.        *)

TimeStrings ==
    { <<"0", "0", ":", "0", "5", ".", "0", "0", "0">>,
      <<"0", "0", ":", "0", "4", ".", "0", "0", "5">>,
      <<"5", "9", ":", "5", "9", ".", "1", "2", "5">>,
      <<"1", ":", "2">>,
      <<"5", ":">>,
      <<":", "7">>,
      <<"-", "1", ":", "0", "0", ".", "0", "0", "0">>,
      <<"1", ":", "2", "x", ".", "5">>,
      <<"n", "o", "t", "-", "a", "-", "t", "i", "m", "e">>,
      <<>>,
      <<"1", ":", "0", "2", ":", "0", "3">>,
      <<"0", ":", "0", ".", "0", "0", "0", "5">> }

SampleMinutes == {0, 59}
SampleSeconds == {0, 4, 59}
SampleMillis == {0, 5, 125, 255, 500}
TimeValues ==
    { (60 * m + sec) * Sec + Ms(ms) :
        m \in SampleMinutes, sec \in SampleSeconds, ms \in SampleMillis }

editorVars ==
    <<user, audioFile, mediaDuration, isPlaying, currentTime, duration,
      subtitles, isTranscribing, transcriptionProgress, selectedSubtitle,
      currentSubtitleId, pc, runDuration, progressIntervals, editsLeft,
      srtContent>>

InitTime ==
    /\ user = FALSE
    /\ audioFile = "null"
    /\ mediaDuration = 0
    /\ isPlaying = FALSE
    /\ currentTime = 0
    /\ duration = 0
    /\ subtitles = <<>>
    /\ isTranscribing = FALSE
    /\ transcriptionProgress = 0
    /\ selectedSubtitle = null
    /\ currentSubtitleId = null
    /\ pc = "idle"
    /\ runDuration = 0
    /\ progressIntervals = 0
    /\ editsLeft = 0
    /\ srtContent = <<>>
    /\ timeText \in TimeStrings
    /\ timeValue \in TimeValues

ParseTyped ==
    /\ timeValue' = parseTime(timeText)
    /\ UNCHANGED <<editorVars, timeText>>

FormatShown ==
    /\ timeText' = formatTime(timeValue)
    /\ UNCHANGED <<editorVars, timeValue>>

NextTime == ParseTyped \/ FormatShown

TimeSpec == InitTime /\ [][NextTime]_vars


----------------------------------------------------------------------------
(* Properties *)

Contains(sub, time) == sub.startTime <= time /\ time <= sub.endTime
CueIds(subs) == {subs[k].id : k \in 1..Len(subs)}

(* C1: in every reachable state every cue satisfies                        *)
(* 0 <= start < end <= totalDuration, whatever edits were applied.         *)
C1_CueBoundsInvariant ==
    \A k \in 1..Len(subtitles) :
        /\ 0 <= subtitles[k].startTime
        /\ subtitles[k].startTime < subtitles[k].endTime
        /\ subtitles[k].endTime <= duration

(* C2: in every reachable state the active cue id is none or the id of a   *)
(* cue of the current list whose interval contains the playback position.  *)
C2_ActiveCueConsistent ==
    \/ currentSubtitleId = null
    \/ \E k \in 1..Len(subtitles) :
         /\ subtitles[k].id = currentSubtitleId
         /\ Contains(subtitles[k], currentTime)

(* C3: a playback tick at position t makes the active cue the first cue in *)
(* list order with start <= t <= end (none if no cue matches), looked up   *)
(* in the cue list as it is at the tick; ties go to the earlier cue.       *)
C3_TickSelectsFirstMatch ==
    [][updateTime =>
        LET matching == {k \in 1..Len(subtitles) :
                            Contains(subtitles[k], currentTime')}
        IN  IF matching = {}
            THEN currentSubtitleId' = null
            ELSE \E k \in matching :
                    /\ \A j \in matching : k <= j
                    /\ currentSubtitleId' = subtitles[k].id]_vars

(* C3 witness: after a tick, the active cue is the earlier of two cues     *)
(* that overlap and both contain the playback position.                    *)
C3_TieWitness ==
    /\ Len(subtitles) >= 2
    /\ Contains(subtitles[1], currentTime)
    /\ Contains(subtitles[2], currentTime)
    /\ subtitles[1].endTime > subtitles[2].startTime
    /\ currentSubtitleId = subtitles[1].id

C6_FailureLeavesCues ==
    [][(ReadFails \/ ProviderRejects) =>
          /\ subtitles' = subtitles
          /\ selectedSubtitle' = selectedSubtitle
          /\ isTranscribing' = FALSE]_vars

(* C6 witness: a run has failed at the provider call (its interval is      *)
(* still set) while cues, one of them selected and edited, exist.          *)
C6_FailedRunWitness ==
    /\ pc = "idle"
    /\ ~isTranscribing
    /\ progressIntervals > 0
    /\ Len(subtitles) > 0
    /\ selectedSubtitle # null
    /\ editsLeft < MaxEdits

(* C7: the duration a returned transcript is segmented for is always the   *)
(* loaded, positive audio duration.                                        *)
C7_SegmentationDurationKnown ==
    [][\A text \in Transcripts :
          ProviderResolves(text) =>
              runDuration > 0 /\ runDuration = mediaDuration]_vars

(* C8: the ids of a cue list are distinct, and no id of a replaced cue     *)
(* list is assigned again to a cue of the list that replaces it.           *)
C8_IdsNeverReused ==
    [][\A text \in Transcripts :
          ProviderResolves(text) =>
              /\ Cardinality(CueIds(subtitles')) = Len(subtitles')
              /\ CueIds(subtitles') \cap CueIds(subtitles) = {}]_vars

(* C9 as stated: after End -0.5s the cue's end is strictly greater than    *)
(* start + 0.1.                                                            *)
C9_EndMinusStrictlyAboveGap ==
    [][EndMinus =>
          \A k \in 1..Len(subtitles) :
              subtitles[k].id = selectedSubtitle =>
                  subtitles'[k].endTime > subtitles'[k].startTime + nudgeGap]_vars

(* C9 amended: after End -0.5s on a cue with start < end, the cue's end is *)
(* at least start + 0.1 (the clamp value itself is reached).               *)
C9_EndMinusAtLeastGap ==
    [][EndMinus =>
          \A k \in 1..Len(subtitles) :
              (subtitles[k].id = selectedSubtitle
               /\ subtitles[k].startTime < subtitles[k].endTime) =>
                  /\ subtitles'[k].endTime >= subtitles'[k].startTime + nudgeGap
                  /\ subtitles'[k].startTime = subtitles[k].startTime]_vars

(* C9 witness: End -0.5s has clamped the first cue's end to start + 0.1.   *)
C9_ClampWitness ==
    /\ Len(subtitles) > 0
    /\ subtitles[1].startTime = 0
    /\ subtitles[1].endTime = nudgeGap

(* C10: in every reachable state the cue list is ordered by start          *)
(* ascending.                                                              *)
C10_OrderedByStart ==
    \A k \in 1..(Len(subtitles) - 1) :
        subtitles[k].startTime <= subtitles[k + 1].startTime

(* MM:SS.mmm: two digits, a colon, two digits, a point, three digits *)
WellFormedTime(s) ==
    /\ Len(s) = 9
    /\ s[3] = ":"
    /\ s[6] = "."
    /\ \A i \in {1, 2, 4, 5, 7, 8, 9} : s[i] \in Digits

(* The time a text of the form MM:SS.mmm denotes, read digit by digit *)
WellFormedValue(s) ==
    (10 * DigitVal(s[1]) + DigitVal(s[2])) * 60 * Sec
    + (10 * DigitVal(s[4]) + DigitVal(s[5])) * Sec
    + Ms(100 * DigitVal(s[7]) + 10 * DigitVal(s[8]) + DigitVal(s[9]))

(* C11: parsing a text gives the time it denotes when the text has the form *)
(* MM:SS.mmm, and 0 for a text of any other shape.                          *)
C11_ParseAcceptsOnlyShape ==
    [][ParseTyped =>
         timeValue' = (IF WellFormedTime(timeText)
                       THEN WellFormedValue(timeText) ELSE 0)]_vars

(* The times of the round trip claim: [0, 3600 s) at millisecond resolution *)
RoundTripDomain(t) ==
    t >= 0 /\ t < 3600 * Sec /\ t % TicksPerMs = 0

(* C12: formatting a time of [0, 3600 s) at millisecond resolution gives a   *)
(* text of the form MM:SS.mmm with seconds in 00..59, and parsing that text *)
(* gives a time that differs from the formatted one by less than 1 ms.      *)
C12_RoundTripWithinOneMs ==
    [][(FormatShown /\ RoundTripDomain(timeValue)) =>
         /\ WellFormedTime(timeText')
         /\ 10 * DigitVal(timeText'[4]) + DigitVal(timeText'[5]) <= 59
         /\ Abs(parseTime(timeText') - timeValue) < Ms(1)]_vars

(* The export of the end-to-end scenario: cues [0, 5] and [5, 10] *)
ExampleSrt ==
    << "1", "\n",
       "0", "0", ":", "0", "0", ".", "0", "0", "0", " ", "-", "-", ">", " ", "0", "0", ":", "0", "5", ".", "0", "0", "0", "\n",
       "o", "n", "e", " ", "t", "w", "o", " ", "t", "h", "r", "e", "e", " ", "f", "o", "u", "r", "\n",
       "\n",
       "2", "\n",
       "0", "0", ":", "0", "5", ".", "0", "0", "0", " ", "-", "-", ">", " ", "0", "0", ":", "1", "0", ".", "0", "0", "0", "\n",
       "f", "i", "v", "e", " ", "s", "i", "x", " ", "s", "e", "v", "e", "n", " ", "e", "i", "g", "h", "t", "\n",
       "\n" >>

(* C13: an export of n >= 1 cues writes, for the cues in list order, the    *)
(* lines i, "formatTime(start) --> formatTime(end)", the text and an empty  *)
(* line, with the cues as edited so far (the two cues of the end-to-end     *)
(* scenario give its text), and leaves the cue list, the selection and the  *)
(* playback state as they are; no file is written from an empty cue list.   *)
C13_ExportSerializesCues ==
    [][ /\ exportSRT =>
             LET n == Len(subtitles)
                 lines == Split(srtContent', "\n")
             IN  /\ n >= 1
                 /\ Len(lines) = 4 * n + 1
                 /\ lines[4 * n + 1] = <<>>
                 /\ \A i \in 1..n :
                      /\ lines[4 * i - 3] = NumberToString(i)
                      /\ lines[4 * i - 2] =
                            formatTime(subtitles[i].startTime) \o Arrow
                            \o formatTime(subtitles[i].endTime)
                      /\ lines[4 * i - 1] = subtitles[i].text
                      /\ lines[4 * i] = <<>>
                 /\ (subtitles = Segment(EightWords, 10 * Sec)
                       => srtContent' = ExampleSrt)
                 /\ UNCHANGED <<subtitles, selectedSubtitle, currentSubtitleId,
                                isPlaying, currentTime, duration>>
        /\ srtContent' # srtContent => Len(subtitles) >= 1 ]_vars

(* An export made after the text of the first of two cues was edited *)
C13_EditedExportWitness ==
    /\ editsLeft < MaxExportEdits
    /\ Len(subtitles) = 2
    /\ Len(Split(srtContent, "\n")) = 9
    /\ Split(srtContent, "\n")[3] \in TypedTexts

(* The tokens of a text: its maximal runs of characters that are not        *)
(* whitespace, in order                                                     *)
RECURSIVE TokenEnd(_, _)
TokenEnd(s, i) ==
    IF i < Len(s) /\ s[i + 1] \notin Whitespace THEN TokenEnd(s, i + 1) ELSE i

RECURSIVE Tokens(_)
Tokens(s) ==
    LET t == TrimStart(s)
    IN  IF Len(t) = 0 THEN <<>>
        ELSE <<SubSeq(t, 1, TokenEnd(t, 1))>> \o Tokens(Drop(t, TokenEnd(t, 1)))

(* A text made of 1 to 4 words without whitespace inside, joined by single  *)
(* spaces                                                                   *)
JoinedWords(t) ==
    /\ Len(t) > 0
    /\ \A i \in 1..Len(t) : t[i] \in Whitespace => t[i] = " "
    /\ t[1] # " " /\ t[Len(t)] # " "
    /\ \A i \in 1..(Len(t) - 1) : ~(t[i] = " " /\ t[i + 1] = " ")
    /\ Cardinality({i \in 1..Len(t) : t[i] = " "}) <= wordsPerSegment - 1

(* C14: the cue list made from a transcript has no cue when the transcript  *)
(* has no token, and every cue text is made of at most 4 words joined by    *)
(* single spaces, with no other whitespace character in it.                 *)
C14_TokensSplitOnWhitespace ==
    [][\A text \in SegTranscripts :
         ProviderResolves(text) =>
           /\ Len(Tokens(text)) = 0 => subtitles' = <<>>
           /\ \A k \in 1..Len(subtitles') : JoinedWords(subtitles'[k].text)]_vars

(* ceil(D / 2.5 s) *)
WindowsWithin(D) == (D + baseSegmentDuration - 1) \div baseSegmentDuration

(* C15: a transcript of W >= 1 tokens segmented for a duration D > 0 gives  *)
(* N = min(ceil(W / 4), ceil(D / 2.5 s)) cues, whatever the lengths of the  *)
(* words, and cue k (from 0) has the tokens 4k .. min(4k + 3, W - 1) joined *)
(* by single spaces, the tokens from 4N on being dropped.                   *)
C15_CueCountAndTexts ==
    [][\A text \in SegTranscripts :
         ProviderResolves(text) =>
           LET tokens == Tokens(text)
               W == Len(tokens)
               D == runDuration
               N == Min((W + wordsPerSegment - 1) \div wordsPerSegment,
                        WindowsWithin(D))
           IN  (W >= 1 /\ D > 0) =>
                 /\ Len(subtitles') = N
                 /\ \A k \in 0..(N - 1) :
                      subtitles'[k + 1].text =
                        Join(SubSeq(tokens, wordsPerSegment * k + 1,
                                    Min(wordsPerSegment * k + wordsPerSegment, W)),
                             " ")]_vars

(* C16: while no run is in flight the progress indicator is 0 and no        *)
(* progress timer is set, and there is never more than one progress timer.  *)
C16_ProgressResetAfterRun ==
    /\ ~isTranscribing => (transcriptionProgress = 0 /\ progressIntervals = 0)
    /\ progressIntervals <= 1

(* The cue list is replaced wholesale: a run delivers its cues, or an audio *)
(* file is accepted                                                         *)
CueListReplaced ==
    \/ TranscriptionDone
    \/ (handleFileUpload \/ handleDrop) /\ audioFile' = "audio"

(* C17: after every step the selected id is none or the id of a cue of the  *)
(* list, and a step that replaces the cue list leaves no cue selected.      *)
C17_SelectionDenotesClickedCue ==
    [][ /\ selectedSubtitle' = null \/ selectedSubtitle' \in CueIds(subtitles')
        /\ CueListReplaced => selectedSubtitle' = null ]_vars

============================================================================
